---- MODULE Spec2Model ----
(***************************************************************************)
(* The regional predict-weather handler (supabase edge function) of        *)
(* nasa-forecastr: request parsing, the historical date window, the        *)
(* 5-point fan-out of upstream fetches joined by Promise.all, the pooling  *)
(* of the cleaned series and the statistics of the response; the older     *)
(* single-point handler; and the page that calls the handler: map clicks,  *)
(* reverse geocoding, the search and what the results component shows.     *)
(*                                                                         *)
(* Units.  Temperatures, precipitation, wind speeds, latitudes and         *)
(* longitudes are integers in TENTHS of their unit (35.1 degrees is 351,   *)
(* the fill value -999 is -9990, the grid step 0.5 is 5).  Response fields *)
(* are integers in the unit of their last kept decimal: average_temp,      *)
(* temp_std_dev and the confidence bounds in tenths, average_precip and    *)
(* precip_std_dev in hundredths, temp_trend_value in thousandths.          *)
(* The sums, means, square roots and quotients of the averages, standard   *)
(* deviations, trend and confidence interval of the handler's result are   *)
(* the exact real ones; the four percentages are computed in IEEE 754      *)
(* double arithmetic, and so is calculateTrend taken on its own.  On every *)
(* pooled sample the handler of this model meets, the exact trend and the  *)
(* double one give the same temp_trend and temp_trend_value.               *)
(***************************************************************************)
EXTENDS Integers, Sequences, FiniteSets, TLC

VARIABLES
    pc,              \* position of the handler: "idle", "awaiting", "done"
    req,             \* the request being served
    fetches,         \* the 5 upstream fetches of gridPoints.map(fetchLocationData)
    responses,       \* the Responses returned by the handler, in order
    allTempValues,   \* pooled cleaned T2M values
    allPrecipValues, \* pooled cleaned PRECTOTCORR values
    allWindValues,   \* pooled cleaned WS10M values
    input,           \* the argument of a function taken on its own
    output,          \* its value
    selectedLocation, \* Index: useState of the selected location
    isLoading,       \* Index: useState(false)
    weatherData,     \* Index: useState of the result handed to WeatherResults
    searchDate,      \* Index: useState of the date of the last search
    geocodes,        \* LocationMap: the reverse-geocoding fetches, in click order
    search           \* Index: the fetch of predict-weather issued by handleSearch

handlerVars ==
    <<pc, req, fetches, responses, allTempValues, allPrecipValues, allWindValues>>

pageVars ==
    <<selectedLocation, isLoading, weatherData, searchDate, geocodes, search>>

vars == <<handlerVars, input, output, pageVars>>

-----------------------------------------------------------------------------
(* JavaScript values that reach the handler untyped *)

JsNum(n) == [t |-> "number", v |-> n, s |-> ""]
JsStr(str) == [t |-> "string", v |-> 0, s |-> str]
JsUndefined == [t |-> "undefined", v |-> 0, s |-> ""]
JsNaN == [t |-> "NaN", v |-> 0, s |-> ""]

\* x + 0.5 : numeric addition, string concatenation, NaN for undefined
JsPlusHalf(x) ==
    CASE x.t = "number" -> JsNum(x.v + 5)
      [] x.t = "string" -> JsStr(x.s \o "0.5")
      [] OTHER -> JsNaN

\* x - 0.5 : numeric subtraction; NaN for anything that is not a number
JsMinusHalf(x) ==
    IF x.t = "number" THEN JsNum(x.v - 5) ELSE JsNaN

\* Math.round(a / b) for b > 0: the nearest integer, halves towards +infinity
RoundDiv(a, b) == (2 * a + b) \div (2 * b)

-----------------------------------------------------------------------------
(* The request *)

\* new Date().getFullYear() on the day the handler runs
CurrentYear == 2026

\* currentYear - 15 .. currentYear - 1
YearsBack == 15

\* the fill value -999 of the data provider, in tenths
Sentinel == -9990

\* t = "iso": a date string new Date() parses; "undefined": the field is missing;
\* "text": a string new Date() cannot parse
IsoDate(y, m, d) == [t |-> "iso", y |-> y, m |-> m, d |-> d]
NoDate == [t |-> "undefined", y |-> 0, m |-> 0, d |-> 0]
BadDate == [t |-> "text", y |-> 0, m |-> 0, d |-> 0]

PostRequest(lat, lon, date, variables) ==
    [method |-> "POST", json |-> TRUE, lat |-> lat, lon |-> lon, date |-> date,
     variables |-> variables]

\* well-formed queries
ValidRequests ==
    { PostRequest(JsNum(285), JsNum(771), IsoDate(2026, 7, 4), {"temperature"}),
      PostRequest(JsNum(285), JsNum(771), IsoDate(2026, 7, 4), {"rainfall", "windspeed"}),
      PostRequest(JsNum(900), JsNum(-1800), IsoDate(2026, 12, 31),
                  {"temperature", "rainfall", "windspeed"}) }

\* queries whose lat, lon or date is missing or not a number / not a date
MalformedRequests ==
    { PostRequest(JsUndefined, JsNum(771), IsoDate(2026, 7, 4), {"temperature"}),
      PostRequest(JsNum(285), JsStr("abc"), IsoDate(2026, 7, 4), {"temperature"}),
      PostRequest(JsNum(285), JsNum(771), NoDate, {"temperature"}),
      PostRequest(JsNum(285), JsNum(771), BadDate, {"temperature"}) }

\* a CORS preflight, and a POST whose body is not JSON
OtherRequests ==
    { [method |-> "OPTIONS", json |-> FALSE, lat |-> JsUndefined, lon |-> JsUndefined,
       date |-> NoDate, variables |-> {}],
      [method |-> "POST", json |-> FALSE, lat |-> JsUndefined, lon |-> JsUndefined,
       date |-> NoDate, variables |-> {}] }

Requests == ValidRequests \cup MalformedRequests \cup OtherRequests

NoRequest ==
    [method |-> "none", json |-> FALSE, lat |-> JsUndefined, lon |-> JsUndefined,
     date |-> NoDate, variables |-> {}]

-----------------------------------------------------------------------------
(* The historical window *)

\* targetDate.getMonth() + 1 and targetDate.getDate(): NaN for an Invalid Date
TargetMonth(date) == IF date.t = "iso" THEN JsNum(date.m) ELSE JsNaN
TargetDay(date) == IF date.t = "iso" THEN JsNum(date.d) ELSE JsNaN

\* n.toString().padStart(2, '0') of a month or day number, or of NaN
Pad2(x) ==
    IF x.t = "number"
    THEN (IF x.v < 10 THEN "0" ELSE "") \o ToString(x.v)
    ELSE "NaN"

\* `${year}${month padded}${day padded}`: the text, and for a text of eight
\* digits the number YYYYMMDD it spells (0 otherwise)
FormatDate(year, date) ==
    LET month == TargetMonth(date)
        day == TargetDay(date)
    IN  [text |-> ToString(year) \o Pad2(month) \o Pad2(day),
         ymd |-> IF month.t = "number" /\ day.t = "number"
                 THEN year * 10000 + month.v * 100 + day.v ELSE 0]

StartDate(date) == FormatDate(CurrentYear - YearsBack, date)
EndDate(date) == FormatDate(CurrentYear - 1, date)

-----------------------------------------------------------------------------
(* The grid and the fetches *)

\* gridPoints: center, north, south, east, west
GridPoints(lat, lon) ==
    << [lat |-> lat, lon |-> lon],
       [lat |-> JsPlusHalf(lat), lon |-> lon],
       [lat |-> JsMinusHalf(lat), lon |-> lon],
       [lat |-> lat, lon |-> JsPlusHalf(lon)],
       [lat |-> lat, lon |-> JsMinusHalf(lon)] >>

GridIndex == 1 .. 5

\* the query string of fetchLocationData
NasaUrl(point, startDate, endDate) ==
    [parameters |-> <<"T2M", "PRECTOTCORR", "WS10M">>,
     longitude |-> point.lon, latitude |-> point.lat,
     start |-> startDate, end |-> endDate]

Message(text, status) == [text |-> text, status |-> status]
NoMessage == Message("", 0)

-----------------------------------------------------------------------------
(* The data provider: what a fetch of the daily-point API can answer *)

IsLeap(y) == (y % 4 = 0 /\ y % 100 # 0) \/ y % 400 = 0

DaysInMonth(y, m) ==
    CASE m \in {4, 6, 9, 11} -> 30
      [] m = 2 -> IF IsLeap(y) THEN 29 ELSE 28
      [] OTHER -> 31

\* the calendar day after YYYYMMDD
NextDay(ymd) ==
    LET y == ymd \div 10000
        m == (ymd \div 100) % 100
        d == ymd % 100
    IN  IF d < DaysInMonth(y, m) THEN ymd + 1
        ELSE IF m < 12 THEN y * 10000 + (m + 1) * 100 + 1
        ELSE (y + 1) * 10000 + 101

\* Of a daily answer for start..end the model keeps four days: the first
\* day, the day after it, the first day's anniversary a year later, and the
\* last day.
ProbeDays(url) ==
    << url.start.ymd, NextDay(url.start.ymd), url.start.ymd + 10000, url.end.ymd >>

EmptyObject == << >>

JsonObject(parameter) == [t |-> "object", properties |-> TRUE, parameter |-> parameter]
\* a JSON object without the properties member (an error document, say)
NoProperties == [t |-> "object", properties |-> FALSE, parameter |-> EmptyObject]
\* the JSON text null
JsonNull == [t |-> "null", properties |-> FALSE, parameter |-> EmptyObject]

\* every tracked day answered; values on both sides of, and exactly at, the
\* thresholds 35, 10, 1.0 and 10
DailyPayload(url) ==
    LET D == ProbeDays(url)
    IN  JsonObject(
          [T2M |-> (D[1] :> 351 @@ D[2] :> 350 @@ D[3] :> 99 @@ D[4] :> 100),
           PRECTOTCORR |-> (D[1] :> 0 @@ D[2] :> 20 @@ D[3] :> 50 @@ D[4] :> 5),
           WS10M |-> (D[1] :> 100 @@ D[2] :> 101 @@ D[3] :> 30 @@ D[4] :> 120)])

\* days flagged missing with the fill value, and days left out
GappyPayload(url) ==
    LET D == ProbeDays(url)
    IN  JsonObject(
          [T2M |-> (D[1] :> Sentinel @@ D[2] :> 200 @@ D[3] :> Sentinel @@ D[4] :> 360),
           PRECTOTCORR |-> (D[1] :> 10 @@ D[2] :> Sentinel @@ D[3] :> 11),
           WS10M |-> (D[1] :> Sentinel @@ D[4] :> 50)])

\* nothing usable: only fill values, an empty series, an absent series
BlankPayload(url) ==
    LET D == ProbeDays(url)
    IN  JsonObject(
          [T2M |-> (D[1] :> Sentinel @@ D[3] :> Sentinel),
           PRECTOTCORR |-> EmptyObject])

\* no answer yet
NoAnswer == [kind |-> "none", status |-> 0, data |-> JsonNull]
\* a non-ok status; its body is an error document
HttpFailure(status) == [kind |-> "http", status |-> status, data |-> NoProperties]
NotJson == [kind |-> "notjson", status |-> 200, data |-> JsonNull]
Json(data) == [kind |-> "json", status |-> 200, data |-> data]

\* a query the provider can serve: numeric coordinates, eight-digit dates
WellFormedUrl(url) ==
    /\ url.latitude.t = "number"
    /\ url.longitude.t = "number"
    /\ url.start.ymd > 0
    /\ url.end.ymd > 0

\* The answers to one fetch.  A query that is not well formed is refused
\* with 422; a well-formed one is answered with a document, with a body
\* that is not JSON, or with a server error.
Outcomes(url) ==
    IF WellFormedUrl(url)
    THEN { Json(DailyPayload(url)), Json(GappyPayload(url)), Json(BlankPayload(url)),
           Json(NoProperties), Json(JsonNull), NotJson, HttpFailure(500) }
    ELSE { HttpFailure(422) }

\* fetchLocationData without its check of response.ok
FetchLocationDataUnchecked(url, outcome) ==
    IF outcome.kind = "notjson"
    THEN [state |-> "rejected", url |-> url, answer |-> outcome, data |-> JsonNull,
          error |-> Message("Unexpected token in JSON", 0)]
    ELSE [state |-> "fulfilled", url |-> url, answer |-> outcome, data |-> outcome.data,
          error |-> NoMessage]

\* fetchLocationData: throws on a non-ok status, otherwise response.json(),
\* which throws on a body that is not JSON.  answer records what the provider
\* answered; state, data and error are what the handler gets.
FetchLocationData(url, outcome) ==
    CASE outcome.kind = "http" ->
           [state |-> "rejected", url |-> url, answer |-> outcome, data |-> JsonNull,
            error |-> Message("NASA API error: ", outcome.status)]
      [] outcome.kind = "notjson" ->
           [state |-> "rejected", url |-> url, answer |-> outcome, data |-> JsonNull,
            error |-> Message("Unexpected token in JSON", 0)]
      [] OTHER ->
           [state |-> "fulfilled", url |-> url, answer |-> outcome, data |-> outcome.data,
            error |-> NoMessage]

PendingFetch(url) ==
    [state |-> "pending", url |-> url, answer |-> NoAnswer, data |-> JsonNull,
     error |-> NoMessage]

NoFetch ==
    [state |-> "none",
     url |-> NasaUrl([lat |-> JsUndefined, lon |-> JsUndefined],
                     [text |-> "", ymd |-> 0], [text |-> "", ymd |-> 0]),
     answer |-> NoAnswer, data |-> JsonNull, error |-> NoMessage]

-----------------------------------------------------------------------------
(* Sentinel filter and pooling *)

\* nasaData.properties?.parameter?.[name] || {}
Series(nasaData, name) ==
    IF nasaData.properties /\ name \in DOMAIN nasaData.parameter
    THEN nasaData.parameter[name]
    ELSE EmptyObject

\* Object.values of an object whose keys are YYYYMMDD: integer-like keys are
\* enumerated in ascending numeric order
RECURSIVE ObjectValues(_)
ObjectValues(obj) ==
    IF DOMAIN obj = {} THEN << >>
    ELSE LET k == CHOOSE x \in DOMAIN obj : \A y \in DOMAIN obj : x <= y
             rest == [y \in DOMAIN obj \ {k} |-> obj[y]]
         IN  << obj[k] >> \o ObjectValues(rest)

\* a filter that keeps what is above the fill value
SentinelFilterAbove(values) == SelectSeq(values, LAMBDA v : v > Sentinel)

\* .filter(v => v !== -999)
SentinelFilter(values) == SelectSeq(values, LAMBDA v : v # Sentinel)

\* an aggregation loop that puts each point's values in front of the pool
\* (unshift instead of push)
RECURSIVE PoolPrepending(_, _, _)
PoolPrepending(regionalData, name, upTo) ==
    IF upTo = 0 THEN << >>
    ELSE SentinelFilter(ObjectValues(Series(regionalData[upTo], name)))
           \o PoolPrepending(regionalData, name, upTo - 1)

\* the aggregation loop over regionalData[1..upTo] for one parameter
RECURSIVE Pool(_, _, _)
Pool(regionalData, name, upTo) ==
    IF upTo = 0 THEN << >>
    ELSE Pool(regionalData, name, upTo - 1)
           \o SentinelFilter(ObjectValues(Series(regionalData[upTo], name)))

-----------------------------------------------------------------------------
(* Statistics *)

RECURSIVE Sum(_)
Sum(values) == IF values = << >> THEN 0 ELSE Head(values) + Sum(Tail(values))

RECURSIVE SumSq(_)
SumSq(values) ==
    IF values = << >> THEN 0 ELSE Head(values) * Head(values) + SumSq(Tail(values))

\* the predicates of the four probabilities: p > 1.0, t > 35, t < 10, w > 10
Satisfies(variable, v) ==
    CASE variable = "rain" -> v > 10
      [] variable = "hot" -> v > 350
      [] variable = "cold" -> v < 100
      [] variable = "wind" -> v > 100

\* values.filter(predicate).length
Count(values, variable) ==
    Len(SelectSeq(values, LAMBDA v : Satisfies(variable, v)))

\* a / b <= c / d for a, c >= 0 and b, d > 0, by the euclidean algorithm
\* (no product is formed)
RECURSIVE LeqFrac(_, _, _, _)
LeqFrac(a, b, c, d) ==
    LET qa == a \div b
        qc == c \div d
        ra == a % b
        rc == c % d
    IN  IF qa # qc THEN qa < qc
        ELSE IF ra = 0 THEN TRUE
        ELSE IF rc = 0 THEN FALSE
        ELSE LeqFrac(d, rc, b, ra)

\* a * b <= c * d for a, b, c, d >= 0
LeqProd(a, b, c, d) ==
    IF a = 0 \/ b = 0 THEN TRUE
    ELSE IF c = 0 \/ d = 0 THEN FALSE
    ELSE LeqFrac(a, d, c, b)

\* calculateStdDev(values, mean) with mean the mean of values: the population
\* standard deviation sqrt(dev) / n, kept as the pair dev = n * sum of squares
\* - (sum)^2 and n; 0 for no values
CalculateStdDev(values) ==
    IF Len(values) = 0 THEN [dev |-> 0, n |-> 1]
    ELSE [dev |-> Len(values) * SumSq(values) - Sum(values) * Sum(values),
          n |-> Len(values)]

\* the largest s in lo .. hi with s * s <= x, by bisection
RECURSIVE IsqrtIn(_, _, _)
IsqrtIn(x, lo, hi) ==
    IF lo = hi THEN lo
    ELSE LET mid == (lo + hi + 1) \div 2
         IN  IF mid * mid <= x THEN IsqrtIn(x, mid, hi) ELSE IsqrtIn(x, lo, mid - 1)

\* floor(sqrt(x)) for 0 <= x < 2^31
Isqrt(x) == IsqrtIn(x, 0, 46340)

\* Math.round(sqrt(a) / n) = floor((sqrt(4a) + n) / (2n))
RoundSqrtDiv(a, n) == (Isqrt(4 * a) + n) \div (2 * n)

\* The least-squares slope of value against 0-based index in exact
\* arithmetic, as the fraction num / den with den > 0 (in tenths per step);
\* 0 for fewer than 2 values.  With dx = 2i - (n - 1) and n * v - total it is
\*   sum (i - meanX)(v - meanY) / sum (i - meanX)^2
\*     = 2 * sum dx (n v - total) / (n * sum dx^2).
RECURSIVE SlopeSums(_, _, _, _)
SlopeSums(values, i, n, total) ==
    IF i > n THEN [num |-> 0, den |-> 0]
    ELSE LET rest == SlopeSums(values, i + 1, n, total)
             dx == 2 * (i - 1) - n + 1
         IN  [num |-> dx * (n * values[i] - total) + rest.num,
              den |-> dx * dx + rest.den]

LeastSquaresSlope(values) ==
    IF Len(values) < 2 THEN [num |-> 0, den |-> 1]
    ELSE LET n == Len(values)
             sums == SlopeSums(values, 1, n, Sum(values))
         IN  [num |-> 2 * sums.num, den |-> n * sums.den]

\* temp_trend > 0.01 ? 'warming' : temp_trend < -0.01 ? 'cooling' : 'stable'
\* of the exact slope num / den (in tenths of a degree per step)
SlopeLabel(trend) ==
    IF 10 * trend.num > trend.den THEN "warming"
    ELSE IF 10 * trend.num < -trend.den THEN "cooling"
    ELSE "stable"

\* a number of the response that can be NaN
Number(v) == [nan |-> FALSE, v |-> v]
NaN == [nan |-> TRUE, v |-> 0]

\* the largest c in lo .. hi with c * c <= 98 * 98 * m
RECURSIVE FloorSqrt98In(_, _, _)
FloorSqrt98In(m, lo, hi) ==
    IF lo = hi THEN lo
    ELSE LET mid == (lo + hi + 1) \div 2
         IN  IF LeqProd(mid, mid, 9604, m) THEN FloorSqrt98In(m, mid, hi)
             ELSE FloorSqrt98In(m, lo, mid - 1)

\* floor(98 * sqrt(m)) and ceiling(98 * sqrt(m))
FloorSqrt98(m) == FloorSqrt98In(m, 98 * Isqrt(m), 98 * Isqrt(m) + 97)
CeilSqrt98(m) ==
    LET c == FloorSqrt98(m)
    IN  IF LeqProd(9604, m, c, c) THEN c ELSE c + 1

\* The 95% interval average -+ 1.96 * (sd / sqrt(n)), each bound through
\* Math.round(x * 10) / 10, in tenths.  With sd = sqrt(dev) / n the margin is
\* 98 * sqrt(dev * n) / (50 * n * n), so
\*   lower = floor((25n(2 total + n) - 98 sqrt(dev n)) / (50 n n))
\*   upper = floor((25n(2 total + n) + 98 sqrt(dev n)) / (50 n n)).
\* For n = 0 the quotient sd / sqrt(n) is 0 / 0: margin_of_error and both
\* bounds are NaN.
ConfidenceRange(values) ==
    IF Len(values) = 0 THEN [lower |-> NaN, upper |-> NaN]
    ELSE LET n == Len(values)
             total == Sum(values)
             dev == CalculateStdDev(values).dev
             centre == 25 * n * (2 * total + n)
         IN  [lower |-> Number((centre - CeilSqrt98(dev * n)) \div (50 * n * n)),
              upper |-> Number((centre + FloorSqrt98(dev * n)) \div (50 * n * n))]

\* the count scaled to a percentage without the division by the length
PercentUndivided(k, n) == 100 * k

(* IEEE 754 double arithmetic of Math.round((count / length) * 100).  A
   positive double is [hi, mid, lo, exp]: its 53 binary digits cut into the
   leading 17 (hi, 2^16 <= hi < 2^17), the next 18 (mid) and the last 18 (lo),
   read as (hi * 2^36 + mid * 2^18 + lo) * 2^(exp - 52).  Each operation is
   the exact result rounded to 53 digits, ties to the even digit. *)

Limb == 262144      \* 2^18
TopLimb == 131072   \* 2^17

\* 2^e for e >= 0
RECURSIVE Pow2(_)
Pow2(e) == IF e = 0 THEN 1 ELSE 2 * Pow2(e - 1)

\* k doubled until it reaches n: [t, num] with num = 2^t * k and n <= num < 2n
RECURSIVE LeadingShift(_, _, _)
LeadingShift(k, n, t) ==
    IF k >= n THEN [t |-> t, num |-> k] ELSE LeadingShift(2 * k, n, t + 1)

\* the 53 digits hi, mid, lo, plus one when up is true
RoundedDouble(hi, mid, lo, exp, up) ==
    LET lo1 == lo + (IF up THEN 1 ELSE 0)
        mid1 == mid + (lo1 \div Limb)
        hi1 == hi + (mid1 \div Limb)
    IN  IF hi1 = TopLimb
        THEN [hi |-> TopLimb \div 2, mid |-> 0, lo |-> 0, exp |-> exp + 1]
        ELSE [hi |-> hi1, mid |-> mid1 % Limb, lo |-> lo1 % Limb, exp |-> exp]

\* count / length: the double nearest to k / n, for 0 < k <= n < 4096
DoubleDivide(k, n) ==
    LET lead == LeadingShift(k, n, 0)
        hi == (lead.num * (TopLimb \div 2)) \div n
        r1 == (lead.num * (TopLimb \div 2)) % n
        mid == (r1 * Limb) \div n
        r2 == (r1 * Limb) % n
        lo == (r2 * Limb) \div n
        rem == (r2 * Limb) % n
        up == 2 * rem > n \/ (2 * rem = n /\ lo % 2 = 1)
    IN  RoundedDouble(hi, mid, lo, -lead.t, up)

\* x * 100: the exact product has 6 or 7 digits more than 53; they decide
\* the rounding
DoubleTimes100(x) ==
    LET c == 100 * x.lo
        b == (100 * x.mid) + (c \div Limb)
        a == (100 * x.hi) + (b \div Limb)
        pmid == b % Limb
        plo == c % Limb
        d == IF a >= 64 * TopLimb THEN 7 ELSE 6
        cut == Pow2(d)
        dropped == plo % cut
        hi == a \div cut
        mid == ((a % cut) * (Limb \div cut)) + (pmid \div cut)
        lo == ((pmid % cut) * (Limb \div cut)) + (plo \div cut)
        up == 2 * dropped > cut \/ (2 * dropped = cut /\ lo % 2 = 1)
    IN  RoundedDouble(hi, mid, lo, x.exp + d, up)

\* Math.round(x) for a double 0 < x < 2^15: the nearest integer, a tie going
\* up, i.e. the integer part plus the first digit of the fraction
DoubleMathRound(x) ==
    IF x.exp < -1 THEN 0
    ELSE IF x.exp = -1 THEN 1
    ELSE (x.hi \div Pow2(16 - x.exp)) + ((x.hi \div Pow2(15 - x.exp)) % 2)

\* Math.round((k / n) * 100) for 0 <= k <= n, 0 < n < 4096
JsPercent(k, n) ==
    IF k = 0 THEN 0 ELSE DoubleMathRound(DoubleTimes100(DoubleDivide(k, n)))

\* Math.round((k / n) * 100)
Percent(k, n) == JsPercent(k, n)

(* Natural numbers of any size, for the double arithmetic of calculateTrend:
   a sequence of digits to the base 2^BaseBits, the least significant first
   and the last one not 0; << >> is 0. *)

\* the width of a digit: any width whose digits multiply within 31 bits
\* gives the same numbers
BaseBits == 13
Base == Pow2(BaseBits)

\* TRUE, with x evaluated: an operation on many digits takes its operands
\* evaluated, as the machine does
Evaluated(x) == x = x

\* a without the zeros at its most significant end
RECURSIVE BigNorm(_)
BigNorm(a) ==
    IF a = << >> THEN << >>
    ELSE IF a[Len(a)] = 0 THEN BigNorm(SubSeq(a, 1, Len(a) - 1))
    ELSE a

RECURSIVE BigFromInt(_)
BigFromInt(k) ==
    IF k = 0 THEN << >> ELSE << k % Base >> \o BigFromInt(k \div Base)

BigDigit(a, i) == IF i <= Len(a) THEN a[i] ELSE 0

RECURSIVE BigAddFrom(_, _, _, _)
BigAddFrom(a, b, i, carry) ==
    IF i > Len(a) /\ i > Len(b)
    THEN (IF carry = 0 THEN << >> ELSE << carry >>)
    ELSE LET t == BigDigit(a, i) + BigDigit(b, i) + carry
         IN  << t % Base >> \o BigAddFrom(a, b, i + 1, t \div Base)

BigAdd(a, b) == BigAddFrom(a, b, 1, 0)

\* a - b for a >= b
RECURSIVE BigSubFrom(_, _, _, _)
BigSubFrom(a, b, i, borrow) ==
    IF i > Len(a) THEN << >>
    ELSE LET t == a[i] - BigDigit(b, i) - borrow
         IN  IF t < 0
             THEN << t + Base >> \o BigSubFrom(a, b, i + 1, 1)
             ELSE << t >> \o BigSubFrom(a, b, i + 1, 0)

BigSub(a, b) == BigNorm(BigSubFrom(a, b, 1, 0))

\* -1, 0, 1 as a < b, a = b, a > b, comparing the digits from position i down
RECURSIVE BigCmpFrom(_, _, _)
BigCmpFrom(a, b, i) ==
    IF i = 0 THEN 0
    ELSE IF a[i] < b[i] THEN -1
    ELSE IF a[i] > b[i] THEN 1
    ELSE BigCmpFrom(a, b, i - 1)

BigCmp(a, b) ==
    IF Len(a) < Len(b) THEN -1
    ELSE IF Len(a) > Len(b) THEN 1
    ELSE BigCmpFrom(a, b, Len(a))

\* a * k for a digit k
RECURSIVE BigMulDigitFrom(_, _, _, _)
BigMulDigitFrom(a, k, i, carry) ==
    IF i > Len(a) THEN (IF carry = 0 THEN << >> ELSE << carry >>)
    ELSE LET t == a[i] * k + carry
         IN  << t % Base >> \o BigMulDigitFrom(a, k, i + 1, t \div Base)

BigMulDigit(a, k) == IF k = 0 THEN << >> ELSE BigMulDigitFrom(a, k, 1, 0)

\* a * Base^n
BigShiftDigits(a, n) == IF a = << >> THEN << >> ELSE [i \in 1 .. n |-> 0] \o a

\* total + a * (the digits j, j + 1, ... of b, in their places)
RECURSIVE BigMulFrom(_, _, _, _)
BigMulFrom(a, b, j, total) ==
    IF j > Len(b) THEN total
    ELSE LET next == BigAdd(total, BigShiftDigits(BigMulDigit(a, b[j]), j - 1))
         IN  IF Evaluated(next) THEN BigMulFrom(a, b, j + 1, next) ELSE << >>

BigMul(a, b) == BigNorm(BigMulFrom(a, b, 1, << >>))

\* the number of binary digits of a digit, and of a
RECURSIVE BitLength(_)
BitLength(d) == IF d = 0 THEN 0 ELSE 1 + BitLength(d \div 2)

BigBitLength(a) ==
    IF a = << >> THEN 0 ELSE BaseBits * (Len(a) - 1) + BitLength(a[Len(a)])

\* quotient and remainder of a by a digit k > 0, over the digits i, ..., 1
\* of a, rem and q being the remainder and the quotient of the digits above i
RECURSIVE BigDivDigitFrom(_, _, _, _, _)
BigDivDigitFrom(a, k, i, rem, q) ==
    IF i = 0 THEN [q |-> q, r |-> rem]
    ELSE LET cur == rem * Base + a[i]
             digits == << cur \div k >> \o q
         IN  IF Evaluated(digits)
             THEN BigDivDigitFrom(a, k, i - 1, cur % k, digits)
             ELSE [q |-> << >>, r |-> 0]

\* a * 2^n
BigShl(a, n) ==
    BigNorm(BigShiftDigits(BigMulDigit(a, Pow2(n % BaseBits)), n \div BaseBits))

\* floor(a / 2^n)
BigShr(a, n) ==
    IF n \div BaseBits >= Len(a) THEN << >>
    ELSE LET upper == SubSeq(a, (n \div BaseBits) + 1, Len(a))
         IN  BigNorm(BigDivDigitFrom(upper, Pow2(n % BaseBits), Len(upper), 0, << >>).q)

\* The digit d with b * d <= a < b * (d + 1), for a < b * Base and the
\* leading digit of b at least Base / 2: the quotient of the two leading
\* digits of a by the leading digit of b is d, d + 1 or d + 2.
BigQuotientDigit(a, b) ==
    LET n == Len(b)
        guess == (BigDigit(a, n + 1) * Base + BigDigit(a, n)) \div b[n]
        top == IF guess > Base - 1 THEN Base - 1 ELSE guess
    IN  IF BigCmp(BigMulDigit(b, top), a) <= 0 THEN top
        ELSE IF BigCmp(BigMulDigit(b, top - 1), a) <= 0 THEN top - 1
        ELSE top - 2

\* long division of the digits i, i - 1, ..., 1 of a by b, rem and q being
\* the remainder and the quotient of the digits above i: [q, r]
RECURSIVE BigDivModFrom(_, _, _, _, _)
BigDivModFrom(a, b, i, rem, q) ==
    IF i = 0 THEN [q |-> q, r |-> rem]
    ELSE LET cur == BigNorm(<< a[i] >> \o rem)
             d == BigQuotientDigit(cur, b)
             left == BigSub(cur, BigMulDigit(b, d))
             digits == << d >> \o q
         IN  IF Evaluated(left) /\ Evaluated(digits)
             THEN BigDivModFrom(a, b, i - 1, left, digits)
             ELSE [q |-> << >>, r |-> << >>]

\* quotient and remainder of a by b, b not 0: both are first scaled by the
\* power of 2 that brings the leading digit of b to Base / 2 or more
BigDivMod(a, b) ==
    LET scale == BaseBits - BitLength(b[Len(b)])
        dividend == BigShl(a, scale)
        divisor == BigShl(b, scale)
        qr == IF Evaluated(dividend) /\ Evaluated(divisor)
              THEN BigDivModFrom(dividend, divisor, Len(dividend), << >>, << >>)
              ELSE [q |-> << >>, r |-> << >>]
    IN  [q |-> BigNorm(qr.q), r |-> BigShr(qr.r, scale)]

(* IEEE 754 doubles in general, for calculateTrend.  A double other than 0
   is [neg, m, e]: the value (-1)^neg * m * 2^e with m a natural number of
   exactly 53 binary digits.  Every operation is the exact result rounded to
   53 digits, ties to the even digit.  The exponents met here are far from
   the ends of the exponent range; infinities, NaN, subnormal numbers and -0
   do not occur. *)

FloatZero == [zero |-> TRUE, neg |-> FALSE, m |-> << >>, e |-> 0]

\* The double nearest to (-1)^neg * x * 2^e for a natural number x > 0, where
\* sticky tells that the exact value is larger in magnitude than x * 2^e by
\* less than 2^e (then x has more than 54 digits).
FloatRound(neg, x, e, sticky) ==
    LET len == BigBitLength(x)
    IN  IF len <= 53
        THEN [zero |-> FALSE, neg |-> neg, m |-> BigShl(x, 53 - len), e |-> e - (53 - len)]
        ELSE LET cut == len - 53
                 q == BigShr(x, cut)
                 r == BigSub(x, BigShl(q, cut))
                 half == BigCmp(r, BigShl(<< 1 >>, cut - 1))
                 up == \/ half > 0
                       \/ half = 0 /\ sticky
                       \/ half = 0 /\ q[1] % 2 = 1
                 m == IF up THEN BigAdd(q, << 1 >>) ELSE q
             IN  IF BigBitLength(m) = 54
                 THEN [zero |-> FALSE, neg |-> neg, m |-> BigShr(m, 1), e |-> e + cut + 1]
                 ELSE [zero |-> FALSE, neg |-> neg, m |-> m, e |-> e + cut]

\* an integer of at most 31 digits
FloatFromInt(k) ==
    IF k = 0 THEN FloatZero
    ELSE FloatRound(k < 0, BigFromInt(IF k < 0 THEN -k ELSE k), 0, FALSE)

FloatNeg(x) == IF x.zero THEN x ELSE [x EXCEPT !.neg = ~x.neg]

\* x + y
FloatAdd(x, y) ==
    IF x.zero THEN y
    ELSE IF y.zero THEN x
    ELSE LET e == IF x.e < y.e THEN x.e ELSE y.e
             a == BigShl(x.m, x.e - e)
             b == BigShl(y.m, y.e - e)
             c == BigCmp(a, b)
         IN  IF x.neg = y.neg THEN FloatRound(x.neg, BigAdd(a, b), e, FALSE)
             ELSE IF c = 0 THEN FloatZero
             ELSE IF c > 0 THEN FloatRound(x.neg, BigSub(a, b), e, FALSE)
             ELSE FloatRound(y.neg, BigSub(b, a), e, FALSE)

\* x - y
FloatSub(x, y) == FloatAdd(x, FloatNeg(y))

\* x * y
FloatMul(x, y) ==
    IF x.zero \/ y.zero THEN FloatZero
    ELSE FloatRound(x.neg # y.neg, BigMul(x.m, y.m), x.e + y.e, FALSE)

\* x / y for y other than 0: 55 or 56 digits of the quotient, and whether
\* anything is left
FloatDiv(x, y) ==
    IF x.zero THEN FloatZero
    ELSE LET qr == BigDivMod(BigShl(x.m, 55), y.m)
         IN  FloatRound(x.neg # y.neg, qr.q, x.e - y.e - 55, qr.r # << >>)

\* x < y
FloatLess(x, y) ==
    LET d == FloatSub(x, y)
    IN  ~d.zero /\ d.neg

\* the double a JSON number with one decimal is parsed to: the double
\* nearest to k / 10
FloatOfTenths(k) == FloatDiv(FloatFromInt(k), FloatFromInt(10))

\* the element of a set of one element: The({ e : x \in { v } }) is e with x
\* standing for the value of v, computed once however often e reads x
The(S) == CHOOSE element \in S : TRUE

\* values.reduce((a, b) => a + b, 0): the doubles of values[lo .. hi] added
\* to acc one after the other, from lo to hi (the range is walked in two
\* halves, the first before the second)
RECURSIVE FloatSum(_, _, _, _)
FloatSum(values, lo, hi, acc) ==
    IF lo > hi THEN acc
    ELSE IF lo = hi THEN The({ FloatAdd(acc, y) : y \in { FloatOfTenths(values[lo]) } })
    ELSE The({ FloatSum(values, ((lo + hi) \div 2) + 1, hi, first) :
               first \in { FloatSum(values, lo, (lo + hi) \div 2, acc) } })

\* one turn of the loop of calculateTrend, for the 0-based index i
TrendStep(values, i, meanX, meanY, acc) ==
    The({ The({ [numerator |-> FloatAdd(acc.numerator, xy),
                 denominator |-> FloatAdd(acc.denominator, xx)] :
                xy \in { FloatMul(dx, dy) }, xx \in { FloatMul(dx, dx) } }) :
          dx \in { The({ FloatSub(x, meanX) : x \in { FloatFromInt(i) } }) },
          dy \in { The({ FloatSub(y, meanY) : y \in { FloatOfTenths(values[i + 1]) } }) } })

\* the loop of calculateTrend for i = lo .. hi, from lo to hi
RECURSIVE TrendSums(_, _, _, _, _, _)
TrendSums(values, lo, hi, meanX, meanY, acc) ==
    IF lo > hi THEN acc
    ELSE IF lo = hi THEN TrendStep(values, lo, meanX, meanY, acc)
    ELSE The({ TrendSums(values, ((lo + hi) \div 2) + 1, hi, meanX, meanY, first) :
               first \in { TrendSums(values, lo, (lo + hi) \div 2, meanX, meanY, acc) } })

\* numerator / denominator, 0 for a denominator of 0
TrendOfSums(sums) ==
    IF sums.denominator.zero THEN FloatZero
    ELSE FloatDiv(sums.numerator, sums.denominator)

\* a calculateTrend whose meanX is n / 2 instead of the mean of 0 .. n - 1
CalculateTrendMeanOfCount(values) ==
    IF Len(values) < 2 THEN FloatZero
    ELSE The({ The({ TrendOfSums(sums) :
                     sums \in { TrendSums(values, 0, n - 1, meanX, meanY,
                                          [numerator |-> FloatZero,
                                           denominator |-> FloatZero]) } }) :
               n \in { Len(values) },
               meanX \in { The({ FloatDiv(sumX, count) :
                                 sumX \in { FloatFromInt(Len(values)) },
                                 count \in { FloatFromInt(2) } }) },
               meanY \in { The({ FloatDiv(sumY, count) :
                                 sumY \in { FloatSum(values, 1, Len(values), FloatZero) },
                                 count \in { FloatFromInt(Len(values)) } }) } })

\* calculateTrend(values), values given in tenths: the double it returns
CalculateTrend(values) ==
    IF Len(values) < 2 THEN FloatZero
    ELSE The({ The({ TrendOfSums(sums) :
                     sums \in { TrendSums(values, 0, n - 1, meanX, meanY,
                                          [numerator |-> FloatZero,
                                           denominator |-> FloatZero]) } }) :
               n \in { Len(values) },
               meanX \in { The({ FloatDiv(sumX, count) :
                                 sumX \in { FloatFromInt((Len(values) * (Len(values) - 1)) \div 2) },
                                 count \in { FloatFromInt(Len(values)) } }) },
               meanY \in { The({ FloatDiv(sumY, count) :
                                 sumY \in { FloatSum(values, 1, Len(values), FloatZero) },
                                 count \in { FloatFromInt(Len(values)) } }) } })

\* the literal 0.01
TrendThreshold == FloatDiv(FloatFromInt(1), FloatFromInt(100))

\* a classification against 0.1 instead of 0.01
TrendLabelCoarse(trend) ==
    IF FloatLess(FloatOfTenths(1), trend) THEN "warming"
    ELSE IF FloatLess(trend, FloatOfTenths(-1)) THEN "cooling"
    ELSE "stable"

\* temp_trend > 0.01 ? 'warming' : temp_trend < -0.01 ? 'cooling' : 'stable'
TrendLabel(trend) ==
    IF FloatLess(TrendThreshold, trend) THEN "warming"
    ELSE IF FloatLess(trend, FloatNeg(TrendThreshold)) THEN "cooling"
    ELSE "stable"

\* a natural number below 2^31 as an integer
RECURSIVE BigToInt(_)
BigToInt(a) == IF a = << >> THEN 0 ELSE Head(a) + Base * BigToInt(Tail(a))

\* Math.round(x) for a double |x| < 2^30: the nearest integer, a tie going
\* towards +infinity
FloatMathRound(x) ==
    IF x.zero THEN 0
    ELSE LET twice == IF x.e + 1 >= 0 THEN BigShl(x.m, x.e + 1) ELSE BigShr(x.m, -(x.e + 1))
             exact == x.e + 1 >= 0 \/ BigShl(twice, -(x.e + 1)) = x.m
         IN  IF x.neg
             THEN -(BigToInt(IF exact THEN twice ELSE BigAdd(twice, << 1 >>)) \div 2)
             ELSE (BigToInt(twice) + 1) \div 2

\* Math.round(temp_trend * 1000) / 1000, in thousandths
TrendValue(trend) == FloatMathRound(FloatMul(trend, FloatFromInt(1000)))

\* n > 0 ? Math.round((count / n) * 100) : 0
Probability(values, variable) ==
    IF Len(values) > 0 THEN Percent(Count(values, variable), Len(values)) ELSE 0

\* the mean with 0 as the default of an empty temperature sample
AverageTempZeroDefault(temps) ==
    IF Len(temps) > 0 THEN RoundDiv(Sum(temps), Len(temps)) ELSE 0

\* allTempValues.length > 0 ? sum / length : 20, through Math.round(x * 10) / 10
AverageTemp(temps) ==
    IF Len(temps) > 0 THEN RoundDiv(Sum(temps), Len(temps)) ELSE 200

\* allPrecipValues.length > 0 ? sum / length : 0, through Math.round(x * 100) / 100
AveragePrecip(precips) ==
    IF Len(precips) > 0 THEN RoundDiv(10 * Sum(precips), Len(precips)) ELSE 0

\* the result object of the regional handler
PredictionResult(temps, precips, winds) ==
    LET sd == CalculateStdDev(temps)
        psd == CalculateStdDev(precips)
        temp_trend == LeastSquaresSlope(temps)
    IN  [average_temp |-> AverageTemp(temps),
         temp_std_dev |-> RoundSqrtDiv(sd.dev, sd.n),
         temp_confidence_range |-> ConfidenceRange(temps),
         temp_trend |-> SlopeLabel(temp_trend),
         temp_trend_value |-> RoundDiv(100 * temp_trend.num, temp_trend.den),
         average_precip |-> AveragePrecip(precips),
         precip_std_dev |-> RoundSqrtDiv(100 * psd.dev, psd.n),
         rain_probability |-> Probability(precips, "rain"),
         hot_probability |-> Probability(temps, "hot"),
         cold_probability |-> Probability(temps, "cold"),
         wind_probability |-> Probability(winds, "wind"),
         data_years |-> 15,
         data_points |-> Len(temps),
         regional_coverage |-> "~50km radius (5 grid points)"]

-----------------------------------------------------------------------------
(* The handler *)

Response(status, body) == [status |-> status, body |-> body]

\* new Response(null, { headers: corsHeaders })
PreflightResponse == Response(200, EmptyObject)

\* the catch block without its status: the default status 200
ErrorResponseDefaultStatus(error) == Response(200, [error |-> error])

\* the catch block: { error: errorMessage } with status 500
ErrorResponse(error) == Response(500, [error |-> error])

\* new Response(JSON.stringify(result), { headers }) : status 200
ResultResponse(result) == Response(200, result)

\* the single-point handler's result object: the same expressions as the
\* regional ones for the average and the four probabilities, over the series
\* of one document; data_years is tempValues.length
SinglePointResult(nasaData) ==
    LET tempValues == SentinelFilter(ObjectValues(Series(nasaData, "T2M")))
        precipValues == SentinelFilter(ObjectValues(Series(nasaData, "PRECTOTCORR")))
        windValues == SentinelFilter(ObjectValues(Series(nasaData, "WS10M")))
    IN  [average_temp |-> AverageTemp(tempValues),
         rain_probability |-> Probability(precipValues, "rain"),
         hot_probability |-> Probability(tempValues, "hot"),
         cold_probability |-> Probability(tempValues, "cold"),
         wind_probability |-> Probability(windValues, "wind"),
         data_years |-> Len(tempValues)]

\* The single-point handler from the answer of its one fetch to its response.
\* nasaData.properties.parameter.T2M is read without optional chaining: a
\* null document or one without properties throws a TypeError.
SinglePointResponse(outcome) ==
    CASE outcome.kind = "http" ->
           ErrorResponse(Message("NASA API error: ", outcome.status))
      [] outcome.kind = "notjson" ->
           ErrorResponse(Message("Unexpected token in JSON", 0))
      [] outcome.data.t = "null" ->
           ErrorResponse(Message("Cannot read properties of null (reading 'properties')", 0))
      [] ~outcome.data.properties ->
           ErrorResponse(
             Message("Cannot read properties of undefined (reading 'parameter')", 0))
      [] OTHER -> ResultResponse(SinglePointResult(outcome.data))

\* a fan-out that asks each grid point for the requested variables only
FanOutRequested(r) ==
    LET ParameterOf(variable) ==
            CASE variable = "temperature" -> "T2M"
              [] variable = "rainfall" -> "PRECTOTCORR"
              [] variable = "windspeed" -> "WS10M"
        points == GridPoints(r.lat, r.lon)
        url == [i \in GridIndex |-> NasaUrl(points[i], StartDate(r.date), EndDate(r.date))]
    IN  [i \in GridIndex |->
           PendingFetch([url[i] EXCEPT !.parameters =
                           SelectSeq(@, LAMBDA name :
                                          \E v \in r.variables : ParameterOf(v) = name)])]

\* the 5 fetches issued by gridPoints.map(point => fetchLocationData(...))
FanOut(r) ==
    LET points == GridPoints(r.lat, r.lon)
    IN  [i \in GridIndex |->
           PendingFetch(NasaUrl(points[i], StartDate(r.date), EndDate(r.date)))]

NoInput == [kind |-> "none"]
NoOutput == [done |-> FALSE, value |-> 0]

\* useState() without an initial value: undefined
Undefined == [t |-> "undefined", data |-> EmptyObject]
\* a state holding an object
Object(data) == [t |-> "object", data |-> data]

\* handleSearch has not issued a fetch yet
NoSearch == [state |-> "none", body |-> NoRequest]

\* the page as first rendered
PageIdle ==
    /\ selectedLocation = Undefined
    /\ isLoading = FALSE
    /\ weatherData = Undefined
    /\ searchDate = NoDate
    /\ geocodes = << >>
    /\ search = NoSearch

\* no request received yet
HandlerIdle ==
    /\ req = NoRequest
    /\ fetches = [i \in GridIndex |-> NoFetch]
    /\ responses = << >>
    /\ allTempValues = << >>
    /\ allPrecipValues = << >>
    /\ allWindValues = << >>

Init ==
    /\ pc = "idle"
    /\ HandlerIdle
    /\ PageIdle
    /\ input = NoInput
    /\ output = NoOutput

\* serve(async (req) => ...) up to the await of Promise.all
Serve(r) ==
    /\ pc = "idle"
    /\ req' = r
    /\ UNCHANGED <<allTempValues, allPrecipValues, allWindValues, input, output,
                   pageVars>>
    /\ IF r.method = "OPTIONS"
       THEN /\ responses' = Append(responses, PreflightResponse)
            /\ pc' = "done"
            /\ UNCHANGED fetches
       ELSE IF ~r.json
       THEN \* await req.json() throws; the catch block answers
            /\ responses' =
                 Append(responses, ErrorResponse(Message("Unexpected end of JSON input", 0)))
            /\ pc' = "done"
            /\ UNCHANGED fetches
       ELSE /\ fetches' = FanOut(r)
            /\ pc' = "awaiting"
            /\ UNCHANGED responses

\* the first grid point whose document is null, 0 if there is none: reading
\* nasaData.properties of null throws a TypeError
FirstNull(regionalData) ==
    IF \E i \in GridIndex : regionalData[i].t = "null"
    THEN CHOOSE i \in GridIndex :
           /\ regionalData[i].t = "null"
           /\ \A j \in 1 .. i - 1 : regionalData[j].t # "null"
    ELSE 0

\* the handler from the fulfilment of Promise.all to its response
Aggregate(regionalData) ==
    LET thrown == FirstNull(regionalData)
        upTo == IF thrown = 0 THEN 5 ELSE thrown - 1
        temps == Pool(regionalData, "T2M", upTo)
        precips == Pool(regionalData, "PRECTOTCORR", upTo)
        winds == Pool(regionalData, "WS10M", upTo)
    IN  /\ allTempValues' = temps
        /\ allPrecipValues' = precips
        /\ allWindValues' = winds
        /\ responses' =
             Append(responses,
                    IF thrown = 0
                    THEN ResultResponse(PredictionResult(temps, precips, winds))
                    ELSE ErrorResponse(
                           Message("Cannot read properties of null (reading 'properties')", 0)))

\* a barrier that opens as soon as one of the promises is fulfilled
PromiseAllFulfilledByAny(promises) ==
    \E j \in GridIndex : promises[j].state = "fulfilled"

\* Promise.all(promises) is fulfilled once every promise is
PromiseAllFulfilled(promises) ==
    \A j \in GridIndex : promises[j].state = "fulfilled"

\* a handler that waits for every fetch to settle (Promise.allSettled) and
\* then reports the rejection of the first grid point that has one
FetchSettlesAllSettled(i, outcome) ==
    LET settled == FetchLocationData(fetches[i].url, outcome)
        after == [fetches EXCEPT ![i] = settled]
        failed == { j \in GridIndex : after[j].state = "rejected" }
    IN  /\ fetches[i].state = "pending"
        /\ fetches' = after
        /\ UNCHANGED <<req, input, output, pageVars>>
        /\ IF pc = "awaiting" /\ \A j \in GridIndex : after[j].state # "pending"
           THEN /\ pc' = "done"
                /\ IF failed # {}
                   THEN /\ responses' =
                             Append(responses,
                                    ErrorResponse(
                                      after[CHOOSE j \in failed : \A k \in failed : j <= k].error))
                        /\ UNCHANGED <<allTempValues, allPrecipValues, allWindValues>>
                   ELSE Aggregate([j \in GridIndex |-> after[j].data])
           ELSE UNCHANGED <<pc, responses, allTempValues, allPrecipValues, allWindValues>>

\* a handler without its catch block: the rejection of Promise.all is
\* answered by nobody
FetchSettlesUncaught(i, outcome) ==
    LET settled == FetchLocationData(fetches[i].url, outcome)
        after == [fetches EXCEPT ![i] = settled]
    IN  /\ fetches[i].state = "pending"
        /\ fetches' = after
        /\ UNCHANGED <<req, input, output, pageVars>>
        /\ IF pc = "awaiting" /\ PromiseAllFulfilled(after)
           THEN /\ Aggregate([j \in GridIndex |-> after[j].data])
                /\ pc' = "done"
           ELSE UNCHANGED <<pc, responses, allTempValues, allPrecipValues, allWindValues>>

\* One fetch settles.  While the handler awaits Promise.all, the first
\* rejection rejects it and the catch block answers; the fulfilment of the
\* last of the 5 fulfils it and the handler aggregates.  A fetch that settles
\* after the handler has answered changes nothing else.
FetchSettles(i, outcome) ==
    LET settled == FetchLocationData(fetches[i].url, outcome)
        after == [fetches EXCEPT ![i] = settled]
    IN  /\ fetches[i].state = "pending"
        /\ fetches' = after
        /\ UNCHANGED <<req, input, output, pageVars>>
        /\ IF pc = "awaiting" /\ settled.state = "rejected"
           THEN /\ responses' = Append(responses, ErrorResponse(settled.error))
                /\ pc' = "done"
                /\ UNCHANGED <<allTempValues, allPrecipValues, allWindValues>>
           ELSE IF pc = "awaiting" /\ PromiseAllFulfilled(after)
           THEN /\ Aggregate([j \in GridIndex |-> after[j].data])
                /\ pc' = "done"
           ELSE UNCHANGED <<pc, responses, allTempValues, allPrecipValues, allWindValues>>

Next ==
    \/ \E r \in Requests : Serve(r)
    \/ \E i \in GridIndex : \E outcome \in Outcomes(fetches[i].url) : FetchSettles(i, outcome)

Spec == Init /\ [][Next]_vars

-----------------------------------------------------------------------------
(* The handler where every fetch eventually settles *)

\* a query, a query without lat, a POST whose body is not JSON, a preflight
SettlingRequests ==
    { PostRequest(JsNum(285), JsNum(771), IsoDate(2026, 7, 4), {"temperature"}),
      PostRequest(JsUndefined, JsNum(771), IsoDate(2026, 7, 4), {"temperature"}) }
        \cup OtherRequests

\* the answers to one fetch, one of each kind the handler tells apart: a
\* document, the document null, a body that is not JSON, a non-ok status
SettlingOutcomes(url) ==
    IF WellFormedUrl(url)
    THEN { Json(DailyPayload(url)), Json(JsonNull), NotJson, HttpFailure(500) }
    ELSE { HttpFailure(422) }

\* The fetch of grid point i settles: the promise of fetchLocationData is
\* rejected, or it is fulfilled with a document.
Settles(i) ==
    \/ \E outcome \in { o \in SettlingOutcomes(fetches[i].url) :
                          FetchLocationData(fetches[i].url, o).state = "rejected" } :
         FetchSettles(i, outcome)
    \/ \E outcome \in { o \in SettlingOutcomes(fetches[i].url) :
                          FetchLocationData(fetches[i].url, o).state = "fulfilled" } :
         FetchSettles(i, outcome)

SettlingNext ==
    \/ \E r \in SettlingRequests : Serve(r)
    \/ \E i \in GridIndex : Settles(i)

\* Every upstream fetch eventually settles: a pending fetch(nasaUrl) does not
\* stay pending for ever.  Nothing is asked of the arrival of a request.
SettlingSpec ==
    /\ Init
    /\ [][SettlingNext]_vars
    /\ \A i \in GridIndex : WF_vars(Settles(i))

-----------------------------------------------------------------------------
(* The sentinel filter on its own: one series of one document *)

\* the longest raw series drawn
MaxLen == 3

\* the first MaxLen date keys of a range starting 2011-07-04
SeriesKeys == { 20110703 + j : j \in 1 .. MaxLen }

\* the fill value -999, values next to it (-999.1, -99.9), and ordinary values
RawValues == { Sentinel, Sentinel - 1, -999, 0, 351 }

\* every mapping from some of the keys to raw values
RawSeries ==
    UNION { [keys -> RawValues] : keys \in SUBSET SeriesKeys }

\* documents with a T2M series, without one, and without properties
RawDocuments ==
    { JsonObject([T2M |-> series]) : series \in RawSeries }
        \cup { JsonObject([WS10M |-> EmptyObject]), NoProperties }

FilterInit ==
    /\ pc = "raw"
    /\ HandlerIdle
    /\ PageIdle
    /\ input \in { [kind |-> "document", data |-> data] : data \in RawDocuments }
    /\ output = NoOutput

\* Object.values(nasaData.properties?.parameter?.T2M || {}).filter(v => v !== -999)
CleanSeries ==
    /\ pc = "raw"
    /\ pc' = "cleaned"
    /\ output' =
         [done |-> TRUE,
          value |-> SentinelFilter(ObjectValues(Series(input.data, "T2M")))]
    /\ UNCHANGED <<req, fetches, responses, allTempValues, allPrecipValues,
                   allWindValues, input, pageVars>>

FilterNext == CleanSeries

FilterSpec == FilterInit /\ [][FilterNext]_vars

-----------------------------------------------------------------------------
(* The threshold classifier on its own: one pooled sample of one variable *)

\* the largest pooled sample drawn
MaxSample == 40

VariableNames == {"rain", "hot", "cold", "wind"}

\* a value the variable's predicate counts, next to the threshold
CountedValue(variable) ==
    CASE variable = "rain" -> 11
      [] variable = "hot" -> 351
      [] variable = "cold" -> 99
      [] variable = "wind" -> 101

\* the threshold itself
ThresholdValue(variable) ==
    CASE variable = "rain" -> 10
      [] variable = "hot" -> 350
      [] variable = "cold" -> 100
      [] variable = "wind" -> 100

\* n values, the first k of them counted, the others exactly at the threshold
SampleOf(variable, k, n) ==
    [i \in 1 .. n |-> IF i <= k THEN CountedValue(variable) ELSE ThresholdValue(variable)]

ClassifierInit ==
    /\ pc = "sample"
    /\ HandlerIdle
    /\ PageIdle
    /\ input \in UNION { { [kind |-> "sample", variable |-> variable,
                              values |-> SampleOf(variable, k, n)] :
                             variable \in VariableNames, k \in 0 .. n } :
                           n \in 0 .. MaxSample }
    /\ output = NoOutput

\* the probability of the sample's variable, as the handler computes it
Classify ==
    /\ pc = "sample"
    /\ pc' = "classified"
    /\ output' =
         [done |-> TRUE, value |-> Probability(input.values, input.variable)]
    /\ UNCHANGED <<req, fetches, responses, allTempValues, allPrecipValues,
                   allWindValues, input, pageVars>>

ClassifierNext == Classify

ClassifierSpec == ClassifierInit /\ [][ClassifierNext]_vars

-----------------------------------------------------------------------------
(* calculateTrend and the trend classification on their own: one sample *)

\* the longest sample drawn from TrendValues
MaxTrendLen == 4

\* temperatures in tenths: 0.0, 0.1, 0.2 and 20.0
TrendValues == { 0, 1, 2, 200 }

\* a, a + d, a + 2d, ... of length n
LinearSample(a, d, n) == [i \in 1 .. n |-> a + d * (i - 1)]

\* every sample over TrendValues of length 0 .. MaxTrendLen, and linear
\* samples of length 2 .. MaxTrendLen + 2 with other starts and steps
TrendSamples ==
    UNION { [1 .. n -> TrendValues] : n \in 0 .. MaxTrendLen }
      \cup { LinearSample(a, d, n) :
               a \in { 1, 200, -32 }, d \in { -3, 2, 5 }, n \in 2 .. MaxTrendLen + 2 }

TrendInit ==
    /\ pc = "sample"
    /\ HandlerIdle
    /\ PageIdle
    /\ input \in { [kind |-> "trend", values |-> values] : values \in TrendSamples }
    /\ output = NoOutput

\* const temp_trend = calculateTrend(allTempValues) and the temp_trend field
\* of the result
Regress ==
    /\ pc = "sample"
    /\ pc' = "regressed"
    /\ \E temp_trend \in { CalculateTrend(input.values) } :
         output' = [done |-> TRUE,
                    value |-> [trend |-> temp_trend,
                               temp_trend |-> TrendLabel(temp_trend),
                               temp_trend_value |-> TrendValue(temp_trend)]]
    /\ UNCHANGED <<req, fetches, responses, allTempValues, allPrecipValues,
                   allWindValues, input, pageVars>>

TrendNext == Regress

TrendSpec == TrendInit /\ [][TrendNext]_vars

-----------------------------------------------------------------------------
(* The two handlers side by side: one document of the centre point *)

\* precipitation and wind series of a document: none, and two days on both
\* sides of the thresholds 1.0 and 10
OtherSeries == { EmptyObject, (20110704 :> 20 @@ 20110705 :> 5) }

\* documents of the centre point: every raw temperature series with each of
\* the other series for precipitation and wind, a document without
\* properties, and null
CentreDocuments ==
    { JsonObject([T2M |-> series, PRECTOTCORR |-> other, WS10M |-> other]) :
        series \in RawSeries, other \in OtherSeries }
      \cup { NoProperties, JsonNull }

\* the regional handler from the fulfilment of Promise.all to its response
\* when gridPoints holds the centre point only, regionalData being its one
\* document
RegionalResponseOfOne(regionalData) ==
    IF regionalData[1].t = "null"
    THEN ErrorResponse(Message("Cannot read properties of null (reading 'properties')", 0))
    ELSE ResultResponse(PredictionResult(Pool(regionalData, "T2M", 1),
                                         Pool(regionalData, "PRECTOTCORR", 1),
                                         Pool(regionalData, "WS10M", 1)))

VariantInit ==
    /\ pc = "document"
    /\ HandlerIdle
    /\ PageIdle
    /\ input \in { [kind |-> "document", data |-> data] : data \in CentreDocuments }
    /\ output = NoOutput

\* both handlers answer the request whose centre point is answered with the
\* document
ServeBoth ==
    /\ pc = "document"
    /\ pc' = "answered"
    /\ output' =
         [done |-> TRUE,
          value |-> [single |-> SinglePointResponse(Json(input.data)),
                     regional |-> RegionalResponseOfOne(<< input.data >>)]]
    /\ UNCHANGED <<req, fetches, responses, allTempValues, allPrecipValues,
                   allWindValues, input, pageVars>>

VariantNext == ServeBoth

VariantSpec == VariantInit /\ [][VariantNext]_vars

-----------------------------------------------------------------------------
(* The page: Index with LocationMap, DateLocationInput and WeatherResults *)

\* the most map clicks of one run
MaxClicks == 2

\* e.latlng of the map clicks, in tenths of a degree
MapPoints == { [lat |-> 285, lng |-> 771], [lat |-> -339, lng |-> 1512] }

\* x.toFixed(4) of a coordinate given in tenths
ToFixed4(x) ==
    LET a == IF x < 0 THEN -x ELSE x
    IN  (IF x < 0 THEN "-" ELSE "") \o ToString(a \div 10) \o "." \o ToString(a % 10)
          \o "000"

\* the display_name the geocoder knows for a place
DisplayName(lat, lng) == IF lat > 0 THEN "New Delhi, India" ELSE "Sydney, Australia"

\* What the reverse-geocoding fetch can come to: a document with a
\* display_name, a document without one, or a rejection (network failure, a
\* body that is not JSON).
GeocodeOutcomes(lat, lng) ==
    { [kind |-> "json", display_name |-> JsStr(DisplayName(lat, lng))],
      [kind |-> "json", display_name |-> JsUndefined],
      [kind |-> "rejected", display_name |-> JsUndefined] }

\* setSelectedLocation({ lat, lon, name })
HandleLocationSelect(lat, lon, name) ==
    selectedLocation' = Object([lat |-> lat, lon |-> lon, name |-> name])

\* map.on('click'): onLocationSelect(lat, lng), then the reverse-geocoding
\* fetch is issued
MapClick(e) ==
    /\ Len(geocodes) < MaxClicks
    /\ HandleLocationSelect(e.lat, e.lng, JsUndefined)
    /\ geocodes' = Append(geocodes, [lat |-> e.lat, lng |-> e.lng, state |-> "pending"])
    /\ UNCHANGED <<handlerVars, input, output, isLoading, weatherData, searchDate, search>>

\* data.display_name || `${lat.toFixed(4)}, ${lng.toFixed(4)}`
LocationName(lat, lng, outcome) ==
    IF outcome.display_name.t = "string" /\ outcome.display_name.s # ""
    THEN outcome.display_name
    ELSE JsStr(ToFixed4(lat) \o ", " \o ToFixed4(lng))

\* the click handler after its await: onLocationSelect(lat, lng, locationName)
\* with the lat and lng of its own click, or the catch block
GeocodeSettles(i, outcome) ==
    LET g == geocodes[i]
    IN  /\ g.state = "pending"
        /\ IF outcome.kind = "rejected"
           THEN /\ geocodes' = [geocodes EXCEPT ![i].state = "failed"]
                /\ UNCHANGED selectedLocation
           ELSE /\ geocodes' = [geocodes EXCEPT ![i].state = "named"]
                /\ HandleLocationSelect(g.lat, g.lng, LocationName(g.lat, g.lng, outcome))
        /\ UNCHANGED <<handlerVars, input, output, isLoading, weatherData, searchDate, search>>

\* the date picked in the calendar, and the variables ticked
SearchDates == { IsoDate(2026, 7, 4), IsoDate(2026, 12, 31) }
VariableChoices == { {"temperature", "rainfall"} }
\* the text typed into the location field
LocationTexts == { "Tokyo" }

\* the documents the provider may answer to every fetch of one prediction
PayloadKinds == {"daily", "blank"}

PayloadOf(kind, url) ==
    CASE kind = "daily" -> DailyPayload(url)
      [] kind = "blank" -> BlankPayload(url)

\* the regional handler's response to r when each of its fetches is answered
\* with a document of the given kind
RegionalResponse(r, kind) ==
    LET urls == FanOut(r)
        regionalData == [i \in GridIndex |-> PayloadOf(kind, urls[i].url)]
    IN  ResultResponse(PredictionResult(Pool(regionalData, "T2M", 5),
                                        Pool(regionalData, "PRECTOTCORR", 5),
                                        Pool(regionalData, "WS10M", 5)))

\* What the fetch of predict-weather can come to: the response of the
\* deployed handler (the regional or the single-point one) to the body, an
\* error response, or a rejection (the function cannot be reached).
EngineAnswers(body) ==
    { [kind |-> "response", response |-> RegionalResponse(body, kind)] :
        kind \in PayloadKinds }
      \cup { [kind |-> "response",
              response |-> SinglePointResponse(Json(PayloadOf(kind, FanOut(body)[1].url)))] :
               kind \in PayloadKinds }
      \cup { [kind |-> "response",
              response |-> ErrorResponse(Message("NASA API error: ", 500))],
             [kind |-> "rejected", response |-> Response(0, EmptyObject)] }

\* The values of the five calls of Math.random() of one catch block, in
\* hundredths (0 .. 99).
RandomDraws == { <<0, 0, 0, 0, 25>>, <<37, 99, 0, 12, 80>>, <<99, 99, 99, 99, 0>> }

\* mockData: Math.floor(Math.random() * 100) four times, 15 + Math.random() * 20
\* (in tenths)
MockData(random) ==
    [rain_probability |-> random[1], hot_probability |-> random[2],
     cold_probability |-> random[3], wind_probability |-> random[4],
     average_temp |-> 150 + 2 * random[5]]

\* DateLocationInput.handleSubmit behind its button, then Index.handleSearch
\* up to its await
HandleSubmit(location, date, variables) ==
    /\ location # "" /\ date.t = "iso" /\ variables # {}
    /\ ~isLoading
    /\ IF selectedLocation.t = "undefined"
       THEN UNCHANGED <<isLoading, searchDate, search>>
       ELSE /\ isLoading' = TRUE
            /\ searchDate' = date
            /\ search' =
                 [state |-> "pending",
                  body |-> PostRequest(JsNum(selectedLocation.data.lat),
                                       JsNum(selectedLocation.data.lon), date, variables)]
    /\ UNCHANGED <<handlerVars, input, output, selectedLocation, weatherData, geocodes>>

\* handleSearch after its await: setWeatherData(data) for an ok response, the
\* catch block's mockData otherwise, and setIsLoading(false) in either case
SearchSettles(answer) ==
    /\ search.state = "pending"
    /\ IF answer.kind = "response" /\ answer.response.status = 200
       THEN /\ weatherData' = Object(answer.response.body)
            /\ search' = [search EXCEPT !.state = "ok"]
       ELSE /\ \E random \in RandomDraws : weatherData' = Object(MockData(random))
            /\ search' = [search EXCEPT !.state = "failed"]
    /\ isLoading' = FALSE
    /\ UNCHANGED <<handlerVars, input, output, selectedLocation, searchDate, geocodes>>

\* the fields of data that WeatherResults reads
ReadFields ==
    {"rain_probability", "hot_probability", "cold_probability", "wind_probability",
     "average_temp", "temp_std_dev", "temp_confidence_range", "temp_trend",
     "average_precip", "precip_std_dev", "data_points", "regional_coverage"}

\* what WeatherResults renders of its data: the fields it reads, each section
\* present when its field is
Rendered(data) == [f \in DOMAIN data \cap ReadFields |-> data[f]]

NothingShown == [visible |-> FALSE, data |-> EmptyObject, location |-> "", date |-> NoDate]

\* {weatherData && searchDate && <WeatherResults data={weatherData}
\*    location={selectedLocation?.name || 'Selected Location'} date={searchDate} />}
WeatherResults ==
    IF weatherData.t = "object" /\ searchDate.t # "undefined"
    THEN [visible |-> TRUE,
          data |-> Rendered(weatherData.data),
          location |-> IF selectedLocation.t = "object"
                          /\ selectedLocation.data.name.t = "string"
                          /\ selectedLocation.data.name.s # ""
                       THEN selectedLocation.data.name.s
                       ELSE "Selected Location",
          date |-> searchDate]
    ELSE NothingShown

PageInit ==
    /\ pc = "page"
    /\ HandlerIdle
    /\ PageIdle
    /\ input = NoInput
    /\ output = NoOutput

PageNext ==
    \/ \E e \in MapPoints : MapClick(e)
    \/ \E i \in DOMAIN geocodes :
         \E outcome \in GeocodeOutcomes(geocodes[i].lat, geocodes[i].lng) :
           GeocodeSettles(i, outcome)
    \/ \E location \in LocationTexts : \E date \in SearchDates :
         \E variables \in VariableChoices : HandleSubmit(location, date, variables)
    \/ \E answer \in EngineAnswers(search.body) : SearchSettles(answer)

PageSpec == PageInit /\ [][PageNext]_vars

-----------------------------------------------------------------------------
(* Properties of the handler *)

ResultFields ==
    {"average_temp", "temp_std_dev", "temp_confidence_range", "temp_trend",
     "temp_trend_value", "average_precip", "precip_std_dev", "rain_probability",
     "hot_probability", "cold_probability", "wind_probability", "data_years",
     "data_points", "regional_coverage"}

IsResult(r) == DOMAIN r.body = ResultFields
IsError(r) == DOMAIN r.body = {"error"}

ParameterNames == {"T2M", "PRECTOTCORR", "WS10M"}

\* the date keys of a document's series whose value is not the fill value
UsableDays(data) ==
    UNION { { k \in DOMAIN data.parameter[name] : data.parameter[name][k] # Sentinel }
            : name \in DOMAIN data.parameter }

\* C1: if any grid-point fetch is answered with a non-success status, then
\* whatever the other four fetches do, the request has exactly one response,
\* that response is an error with status 500, and it is no PredictionResult.
C1_FailedFetchAbortsPrediction ==
    (\E i \in GridIndex : fetches[i].answer.kind = "http") =>
        /\ Len(responses) = 1
        /\ responses[1].status = 500
        /\ IsError(responses[1])
        /\ ~IsResult(responses[1])

\* one fetch failed with status 500 while the four others delivered usable
\* daily data, and the handler has answered
C1_Witness ==
    /\ Len(responses) = 1
    /\ \E i \in GridIndex :
         /\ fetches[i].answer = HttpFailure(500)
         /\ \A j \in GridIndex \ {i} :
              fetches[j].answer = Json(DailyPayload(fetches[j].url))

\* C2 (as claimed): a result for an empty pooled temperature sample carries a
\* defined, zero-width confidence interval: lower = upper = average_temp,
\* neither of them NaN.
C2_EmptySampleIntervalGuarded ==
    \A k \in 1 .. Len(responses) :
        (IsResult(responses[k]) /\ responses[k].body.data_points = 0) =>
            LET range == responses[k].body.temp_confidence_range
            IN  /\ ~range.lower.nan
                /\ ~range.upper.nan
                /\ range.lower.v = responses[k].body.average_temp
                /\ range.upper.v = responses[k].body.average_temp

\* C3: when all 5 fetches are fulfilled with documents none of which holds a
\* usable value, the handler answers with status 200 and a PredictionResult
\* whose average_temp is 20.0, whose average_precip, standard deviations and
\* four probabilities are 0 and whose data_points is 0.
C3_EmptySamplesGiveDefaults ==
    (\A i \in GridIndex :
        /\ fetches[i].state = "fulfilled"
        /\ fetches[i].data.t = "object"
        /\ UsableDays(fetches[i].data) = {}) =>
        /\ Len(responses) = 1
        /\ responses[1].status = 200
        /\ IsResult(responses[1])
        /\ responses[1].body.average_temp = 200
        /\ responses[1].body.average_precip = 0
        /\ responses[1].body.temp_std_dev = 0
        /\ responses[1].body.precip_std_dev = 0
        /\ responses[1].body.rain_probability = 0
        /\ responses[1].body.hot_probability = 0
        /\ responses[1].body.cold_probability = 0
        /\ responses[1].body.wind_probability = 0
        /\ responses[1].body.data_points = 0

\* all 5 fetches succeeded, none with a usable value, some with fill values
C3_Witness ==
    /\ Len(responses) = 1
    /\ \A i \in GridIndex :
         /\ fetches[i].state = "fulfilled"
         /\ fetches[i].data.t = "object"
         /\ UsableDays(fetches[i].data) = {}
    /\ \E i \in GridIndex : fetches[i].answer = Json(BlankPayload(fetches[i].url))

\* C4: in every PredictionResult returned, each of the four probabilities is
\* an integer from 0 to 100.
C4_ProbabilitiesArePercentages ==
    \A k \in 1 .. Len(responses) :
        IsResult(responses[k]) =>
            /\ responses[k].body.rain_probability \in 0 .. 100
            /\ responses[k].body.hot_probability \in 0 .. 100
            /\ responses[k].body.cold_probability \in 0 .. 100
            /\ responses[k].body.wind_probability \in 0 .. 100

\* a result whose probabilities are neither all 0 nor all 100
C4_Witness ==
    /\ Len(responses) = 1
    /\ IsResult(responses[1])
    /\ responses[1].body.rain_probability \in 1 .. 99
    /\ responses[1].body.hot_probability \in 1 .. 99
    /\ responses[1].body.cold_probability \in 1 .. 99
    /\ responses[1].body.wind_probability \in 1 .. 99

\* lat, lon or date of a parsed request body is missing or not a number /
\* not a date
IsMalformed(r) ==
    /\ r.method = "POST"
    /\ r.json
    /\ (r.lat.t # "number" \/ r.lon.t # "number" \/ r.date.t # "iso")

\* C5 (as claimed): a request whose lat, lon or date is missing or
\* non-numeric issues no upstream fetch, and its response carries a
\* client-error status (4xx), unlike the 500 of an upstream failure.
C5_MalformedInputRejectedBeforeFetch ==
    IsMalformed(req) =>
        /\ \A i \in GridIndex : fetches[i].state = "none"
        /\ \A k \in 1 .. Len(responses) : responses[k].status \in 400 .. 499

\* C6 (as claimed): if a grid-point fetch is answered with a success status
\* and a document that lacks the properties structure, the request gets no
\* PredictionResult.
C6_MalformedPayloadAborts ==
    (\E i \in GridIndex :
        /\ fetches[i].answer.kind = "json"
        /\ fetches[i].answer.data.t = "object"
        /\ ~fetches[i].answer.data.properties) =>
        \A k \in 1 .. Len(responses) : ~IsResult(responses[k])

\* the prediction failed: the body did not parse, a fetch was rejected, or a
\* document was null
PredictionFailed ==
    \/ ~req.json
    \/ \E i \in GridIndex : fetches[i].state = "rejected"
    \/ \E i \in GridIndex : fetches[i].state = "fulfilled" /\ fetches[i].data.t = "null"

\* C7: every response to a prediction request is of exactly one of two
\* kinds: a failure, with status 500 and a body that is exactly {error:
\* message} with a non-empty message, given exactly when the prediction
\* failed; or a success, with status 200 and a body that is exactly a
\* PredictionResult (no error field), given exactly when it did not fail,
\* degenerate empty-sample results included.
C7_FailureAndSuccessDistinct ==
    req.method = "POST" =>
        \A k \in 1 .. Len(responses) :
            \/ /\ responses[k].status = 500
               /\ IsError(responses[k])
               /\ responses[k].body.error.text # ""
               /\ PredictionFailed
            \/ /\ responses[k].status = 200
               /\ IsResult(responses[k])
               /\ "error" \notin DOMAIN responses[k].body
               /\ ~PredictionFailed

\* a degenerate success: status 200 and a result over empty samples
C7_Witness ==
    /\ req.method = "POST"
    /\ Len(responses) = 1
    /\ responses[1].status = 200
    /\ IsResult(responses[1])
    /\ responses[1].body.data_points = 0

\* the document answers every tracked day of its range for every parameter
IsDaily(fetch) ==
    /\ fetch.state = "fulfilled"
    /\ fetch.data.t = "object"
    /\ fetch.data.properties
    /\ DOMAIN fetch.data.parameter = ParameterNames
    /\ \A name \in ParameterNames :
         DOMAIN fetch.data.parameter[name] =
           { ProbeDays(fetch.url)[j] : j \in 1 .. 4 }

\* C8 (as claimed): when the provider answers every day of the requested
\* range and a result is returned, every observation that entered the pooled
\* samples is for the calendar month and day of the target date.
C8_OnlyTargetCalendarDay ==
    (/\ Len(responses) = 1
     /\ IsResult(responses[1])
     /\ \A i \in GridIndex : IsDaily(fetches[i])) =>
        \A i \in GridIndex : \A day \in UsableDays(fetches[i].data) :
            day % 10000 = req.date.m * 100 + req.date.d

\* the series of a raw document the filter is applied to
RawOf(data) ==
    IF data.properties /\ "T2M" \in DOMAIN data.parameter
    THEN data.parameter["T2M"] ELSE EmptyObject

\* the keys of a series whose value is not the fill value
KeptKeys(series) == { k \in DOMAIN series : series[k] # Sentinel }

\* C9: for every raw series the filter yields exactly the values that are
\* not -999, in the order of the series (ascending date key): as many values
\* as the series has entries other than -999, the entry with j kept entries
\* before it at position j + 1.  So a series without -999 comes out whole and
\* an absent or empty one comes out empty.
C9_SentinelFilterKeepsTheRestInOrder ==
    (pc = "cleaned" /\ output.done) =>
        LET series == RawOf(input.data)
            kept == KeptKeys(series)
        IN  /\ Len(output.value) = Cardinality(kept)
            /\ \A k \in kept :
                 output.value[1 + Cardinality({ j \in kept : j < k })] = series[k]
            /\ (kept = DOMAIN series =>
                  \A k \in DOMAIN series :
                    output.value[1 + Cardinality({ j \in DOMAIN series : j < k })]
                      = series[k])
            /\ (DOMAIN series = {} => output.value = << >>)

\* a cleaned series that had -999 between two different other values
C9_Witness ==
    /\ pc = "cleaned"
    /\ output.done
    /\ LET series == RawOf(input.data)
       IN  /\ DOMAIN series = SeriesKeys
           /\ series[20110704] = 351
           /\ series[20110705] = Sentinel
           /\ series[20110706] = Sentinel - 1
    /\ output.value = << 351, Sentinel - 1 >>

\* the number of values of the sample its variable's strict predicate counts
StrictCount(sample) ==
    Cardinality({ i \in 1 .. Len(sample.values) :
        CASE sample.variable = "rain" -> sample.values[i] > 10
          [] sample.variable = "hot" -> sample.values[i] > 350
          [] sample.variable = "cold" -> sample.values[i] < 100
          [] sample.variable = "wind" -> sample.values[i] > 100 })

\* C10 (as claimed): the probability of a sample of n values, k of them
\* satisfying the variable's strict predicate, is 0 for n = 0 and otherwise
\* the integer nearest to 100 * k / n (a half rounded up): the p with
\* p - 1/2 <= 100 k / n < p + 1/2.
C10_ProbabilityIsRoundedShare ==
    (pc = "classified" /\ output.done) =>
        LET n == Len(input.values)
            k == StrictCount(input)
        IN  IF n = 0 THEN output.value = 0
            ELSE /\ (2 * output.value - 1) * n <= 200 * k
                 /\ 200 * k < (2 * output.value + 1) * n

\* C12: the pooled samples are built, and a PredictionResult is returned,
\* only once all 5 grid-point fetches are fulfilled: as long as one fetch is
\* pending or rejected, no pool holds a value and no response is a result.
C12_AggregationOnlyAfterAllFetches ==
    (\/ allTempValues # << >>
     \/ allPrecipValues # << >>
     \/ allWindValues # << >>
     \/ \E k \in DOMAIN responses : IsResult(responses[k]))
        => \A i \in GridIndex : fetches[i].state = "fulfilled"

\* the barrier has opened: all 5 fetches are fulfilled, the pools are filled
\* and the result is returned
C12_Witness ==
    /\ \A i \in GridIndex : fetches[i].state = "fulfilled"
    /\ allTempValues # << >>
    /\ Len(responses) = 1
    /\ IsResult(responses[1])

\* C13: the rejection of a fetch that is the first rejection in time makes
\* the handler answer in that very step, whichever grid point it belongs to
\* and whatever fetches are still pending, with the error response carrying
\* that rejection's message; a later rejection changes no response.
C13_FirstFailureInTimeAborts ==
    [][ \A i \in GridIndex :
          (fetches[i].state = "pending" /\ fetches'[i].state = "rejected") =>
              IF \A j \in GridIndex : fetches[j].state # "rejected"
              THEN responses' = << ErrorResponse(fetches'[i].error) >>
              ELSE responses' = responses ]_vars

\* two fetches have failed with different messages while another is still
\* pending, and the response carries the message of the west point, not that
\* of the centre point
C13_Witness ==
    /\ fetches[1].state = "rejected"
    /\ fetches[5].state = "rejected"
    /\ fetches[1].error # fetches[5].error
    /\ \E j \in GridIndex : fetches[j].state = "pending"
    /\ responses = << ErrorResponse(fetches[5].error) >>

\* the pooled sample of a parameter
PooledValues(name) ==
    CASE name = "T2M" -> allTempValues
      [] name = "PRECTOTCORR" -> allPrecipValues
      [] name = "WS10M" -> allWindValues

\* the date keys with a usable value in the series that grid point i received
KeptAt(i, name) == KeptKeys(Series(fetches[i].data, name))

\* the number of usable values of the grid points before point i
KeptBefore(i, name) ==
    Cardinality({ p \in (1 .. i - 1) \X UNION { KeptAt(j, name) : j \in GridIndex } :
                    p[2] \in KeptAt(p[1], name) })

\* C14: when a result is returned, the fetches were issued for the points
\* center, north, south, east, west in this order, and each pooled sample is
\* the usable values of point 1, then those of point 2, ..., then those of
\* point 5, each point's values by ascending date key: the value of key k of
\* point i stands after all values of the points before i and after the
\* values of point i with a smaller key.  The invariant holds in every
\* interleaving of the settlements.
C14_PoolInGridThenDateOrder ==
    (Len(responses) = 1 /\ IsResult(responses[1])) =>
        /\ << fetches[1].url.latitude, fetches[1].url.longitude >> = << req.lat, req.lon >>
        /\ << fetches[2].url.latitude, fetches[2].url.longitude >>
             = << JsNum(req.lat.v + 5), req.lon >>
        /\ << fetches[3].url.latitude, fetches[3].url.longitude >>
             = << JsNum(req.lat.v - 5), req.lon >>
        /\ << fetches[4].url.latitude, fetches[4].url.longitude >>
             = << req.lat, JsNum(req.lon.v + 5) >>
        /\ << fetches[5].url.latitude, fetches[5].url.longitude >>
             = << req.lat, JsNum(req.lon.v - 5) >>
        /\ \A name \in ParameterNames :
             /\ Len(PooledValues(name)) = KeptBefore(6, name)
             /\ \A i \in GridIndex : \A k \in KeptAt(i, name) :
                  PooledValues(name)[KeptBefore(i, name) + 1
                                       + Cardinality({ j \in KeptAt(i, name) : j < k })]
                    = fetches[i].data.parameter[name][k]

\* a result pooled from different documents at different points: the gappy
\* series of the centre point first, the full series of the west point last
C14_Witness ==
    /\ Len(responses) = 1
    /\ IsResult(responses[1])
    /\ fetches[1].answer = Json(GappyPayload(fetches[1].url))
    /\ fetches[2].answer = Json(BlankPayload(fetches[2].url))
    /\ fetches[5].answer = Json(DailyPayload(fetches[5].url))
    /\ SubSeq(allTempValues, 1, 2) = << 200, 360 >>
    /\ SubSeq(allTempValues, Len(allTempValues) - 3, Len(allTempValues))
         = << 351, 350, 99, 100 >>

\* the sets of variables the form can send (at least one is selected), and
\* no variables at all
VariableSets == SUBSET { "temperature", "rainfall", "windspeed" }

\* C17: the handler ignores the variables of the request.  Once a JSON POST
\* is being served, the 5 fetches are those the same request would issue
\* with any other set of variables, each asking for T2M, PRECTOTCORR and
\* WS10M; and the response is determined by what the fetches received: the
\* error of a rejected fetch, or the result computed from all three pooled
\* parameters of the 5 documents, with every result field present whatever
\* was requested.
C17_VariablesIgnored ==
    (req.method = "POST" /\ req.json) =>
        /\ \A vs \in VariableSets : \A i \in GridIndex :
             /\ fetches[i].url = FanOut([req EXCEPT !.variables = vs])[i].url
             /\ fetches[i].url.parameters = << "T2M", "PRECTOTCORR", "WS10M" >>
        /\ pc = "done" =>
             /\ Len(responses) = 1
             /\ \/ \E i \in GridIndex :
                     /\ fetches[i].state = "rejected"
                     /\ responses[1] = ErrorResponse(fetches[i].error)
                \/ /\ \A i \in GridIndex : fetches[i].state = "fulfilled"
                   /\ \E i \in GridIndex : fetches[i].data.t = "null"
                   /\ IsError(responses[1])
                \/ /\ \A i \in GridIndex : fetches[i].state = "fulfilled"
                   /\ \A i \in GridIndex : fetches[i].data.t # "null"
                   /\ IsResult(responses[1])
                   /\ LET regionalData == [i \in GridIndex |-> fetches[i].data]
                      IN  responses[1] =
                            ResultResponse(PredictionResult(Pool(regionalData, "T2M", 5),
                                                            Pool(regionalData, "PRECTOTCORR", 5),
                                                            Pool(regionalData, "WS10M", 5)))

\* a request for rainfall and wind speed only has been answered with a
\* result whose temperature sample is not empty
C17_Witness ==
    /\ pc = "done"
    /\ req.variables = { "rainfall", "windspeed" }
    /\ Len(responses) = 1
    /\ IsResult(responses[1])
    /\ allTempValues # << >>
    /\ responses[1].body.average_temp # 200

-----------------------------------------------------------------------------
(* Properties of calculateTrend and of the trend classification *)

\* |x - p / q| <= 10^-9 for a double x, an integer p and an integer q > 0:
\* compared as x * q * 10^9 and p * 10^9, both times the power of 2 that
\* makes x a whole number
FloatNear(x, p, q) ==
    LET billion == BigFromInt(1000000000)
        down == IF ~x.zero /\ x.e < 0 THEN -x.e ELSE 0
        up == IF ~x.zero /\ x.e > 0 THEN x.e ELSE 0
        left == IF x.zero THEN << >>
                ELSE BigShl(BigMul(BigMul(x.m, BigFromInt(q)), billion), up)
        right == BigShl(BigMul(BigFromInt(IF p < 0 THEN -p ELSE p), billion), down)
        sameSign == x.zero \/ p = 0 \/ x.neg = (p < 0)
        apart == IF ~sameSign THEN BigAdd(left, right)
                 ELSE IF BigCmp(left, right) >= 0 THEN BigSub(left, right)
                 ELSE BigSub(right, left)
    IN  BigCmp(apart, BigShl(BigFromInt(q), down)) <= 0

\* the exact slope num / den (tenths of a degree per step) is further than
\* 10^-9 degrees per step from 0.01 and from -0.01
OffThreshold(trend) ==
    LET size == IF trend.num < 0 THEN -trend.num ELSE trend.num
    IN  \/ ~LeqProd(100000000, size, 10000001, trend.den)
        \/ ~LeqProd(9999999, trend.den, 100000000, size)

\* C15, as stated: temp_trend is 'warming' when the least-squares slope of the
\* pooled temperatures is above 0.01, 'cooling' when it is below -0.01 and
\* 'stable' otherwise, a slope of exactly 0.01 or -0.01 and a pool of fewer
\* than 2 values being 'stable'.
C15_TrendLabelByThreshold ==
    pc = "regressed" =>
        output.value.temp_trend = SlopeLabel(LeastSquaresSlope(input.values))

\* C15, amended: for temperatures given to a tenth of a degree, temp_trend is
\* the label of the exact least-squares slope whenever that slope is further
\* than 10^-9 from 0.01 and from -0.01; closer to 0.01 it is 'warming' or
\* 'stable', closer to -0.01 'cooling' or 'stable'; a pool of fewer than 2
\* values is 'stable'.
C15_TrendLabelOffThreshold ==
    pc = "regressed" =>
        LET slope == LeastSquaresSlope(input.values)
            label == output.value.temp_trend
        IN  /\ Len(input.values) < 2 => label = "stable"
            /\ OffThreshold(slope) => label = SlopeLabel(slope)
            /\ ~OffThreshold(slope) =>
                   label \in { "stable", IF slope.num > 0 THEN "warming" ELSE "cooling" }

\* C15: a pool of two or more values whose slope is well below -0.01 has been
\* classified, and it is 'cooling'
C15_Witness ==
    /\ pc = "regressed"
    /\ Len(input.values) >= 2
    /\ OffThreshold(LeastSquaresSlope(input.values))
    /\ output.value.temp_trend = "cooling"

\* values is a, a + d, a + 2d, ...
IsLinear(values, d) ==
    \A i \in 1 .. Len(values) - 1 : values[i + 1] - values[i] = d

\* C16, as stated: calculateTrend returns the least-squares slope of value
\* against index: d for every sequence a, a + d, a + 2d, ... of two or more
\* values, and 0 for fewer than 2 values.
C16_TrendOfLinearIsStep ==
    pc = "regressed" =>
        /\ Len(input.values) < 2 => output.value.trend = FloatZero
        /\ Len(input.values) >= 2 /\ IsLinear(input.values, input.values[2] - input.values[1])
               => output.value.trend = FloatOfTenths(input.values[2] - input.values[1])

\* C16, amended: for temperatures given to a tenth of a degree,
\* calculateTrend returns the least-squares slope of value against index to
\* within 10^-9: within 10^-9 of d for every sequence a, a + d, a + 2d, ...
\* of two or more values; and exactly 0 for fewer than 2 values.
C16_TrendOfLinearNearStep ==
    pc = "regressed" =>
        LET slope == LeastSquaresSlope(input.values)
        IN  /\ Len(input.values) < 2 => output.value.trend = FloatZero
            /\ FloatNear(output.value.trend, slope.num, 10 * slope.den)
            /\ Len(input.values) >= 2 /\ IsLinear(input.values, input.values[2] - input.values[1])
                   => FloatNear(output.value.trend, input.values[2] - input.values[1], 10)

\* C16: the trend of a sequence a, a + d, a + 2d, ... of three or more values
\* has been computed, and it is not the double nearest to d
C16_Witness ==
    /\ pc = "regressed"
    /\ Len(input.values) >= 3
    /\ IsLinear(input.values, input.values[2] - input.values[1])
    /\ output.value.trend # FloatOfTenths(input.values[2] - input.values[1])

-----------------------------------------------------------------------------
(* Properties of the two handlers side by side *)

\* C18: for the same document of the centre point, every field of the
\* single-point handler's result (average_temp, rain_probability,
\* hot_probability, cold_probability, wind_probability, data_years) has the
\* value of the field of the same name in the result of the regional
\* computation over the centre point alone.
C18_SinglePointIsRegionalOfOnePoint ==
    (pc = "answered" /\ ~IsError(output.value.single)) =>
        /\ ~IsError(output.value.regional)
        /\ \A field \in DOMAIN output.value.single.body :
             /\ field \in DOMAIN output.value.regional.body
             /\ output.value.single.body[field] = output.value.regional.body[field]

\* the fields other than data_years do agree
SinglePointAgreesButForDataYears ==
    (pc = "answered" /\ ~IsError(output.value.single)) =>
        /\ ~IsError(output.value.regional)
        /\ \A field \in DOMAIN output.value.single.body \ { "data_years" } :
             /\ field \in DOMAIN output.value.regional.body
             /\ output.value.single.body[field] = output.value.regional.body[field]

-----------------------------------------------------------------------------
(* Properties of the page *)

\* the bodies of the successful responses the engine can give to a search
Predictions(body) ==
    { answer.response.body : answer \in
        { a \in EngineAnswers(body) : a.kind = "response" /\ a.response.status = 200 } }

\* C11 (as claimed): after a failed engine call the result the page shows is
\* recognisable as a placeholder: what WeatherResults renders of the
\* weatherData set by the catch block differs from what it renders of the
\* weatherData of every successful prediction for the same search.
C11_PlaceholderIsRecognisable ==
    search.state = "failed" =>
        \A data \in Predictions(search.body) :
            Rendered(weatherData.data) # Rendered(data)

\* C19: after any sequence of map clicks and reverse-geocoding responses, the
\* selected location has the coordinates of the most recent click.
C19_SelectionIsLatestClick ==
    geocodes # << >> =>
        /\ selectedLocation.t = "object"
        /\ selectedLocation.data.lat = geocodes[Len(geocodes)].lat
        /\ selectedLocation.data.lon = geocodes[Len(geocodes)].lng

\* the labels that stand for the place at lat, lng: the geocoder's name, the
\* coordinates as text, and the label of a selection without a name
LabelsOf(lat, lng) ==
    { DisplayName(lat, lng), ToFixed4(lat) \o ", " \o ToFixed4(lng), "Selected Location" }

\* C20: while the result of the last search is displayed, the location shown
\* with it is a label of the place whose coordinates that search sent.
C20_LabelIsOfSearchedLocation ==
    (search.state \in { "ok", "failed" } /\ WeatherResults.visible) =>
        WeatherResults.location \in LabelsOf(search.body.lat.v, search.body.lon.v)

-----------------------------------------------------------------------------
(* Properties of the handler where every fetch eventually settles *)

\* the handler has answered the request, once, with a result or an error
AnsweredOnce ==
    /\ Len(responses) = 1
    /\ IsResult(responses[1]) \/ IsError(responses[1])

\* C21: provided every upstream fetch eventually settles, a request other
\* than OPTIONS is never answered twice, and from some moment after its
\* arrival on it has exactly one response, a PredictionResult or an error,
\* in whatever order the fetches settle.
C21_EveryRequestAnsweredOnce ==
    /\ [](Len(responses) <= 1)
    /\ (req.method \notin { "none", "OPTIONS" }) ~> []AnsweredOnce

\* a request with a JSON body has been answered once although its fetches
\* settled both ways: one was rejected, which answered the request, and
\* others were fulfilled or rejected after that
C21_Witness ==
    /\ req.method = "POST"
    /\ req.json
    /\ AnsweredOnce
    /\ \A i \in GridIndex : fetches[i].state \in { "fulfilled", "rejected" }
    /\ Cardinality({ i \in GridIndex : fetches[i].state = "rejected" }) >= 2
    /\ \E i \in GridIndex : fetches[i].state = "fulfilled"

-----------------------------------------------------------------------------
(* Properties of the grid *)

\* a latitude in [-90, 90], in tenths of a degree
InLatitudeRange(x) == x.t = "number" /\ -900 <= x.v /\ x.v <= 900

\* a longitude in [-180, 180], in tenths of a degree
InLongitudeRange(x) == x.t = "number" /\ -1800 <= x.v /\ x.v <= 1800

\* C22 (as claimed): for a query with latitude in [-90, 90] and longitude in
\* [-180, 180], each of the five grid points sent to the data provider has
\* its latitude in [-90, 90] and its longitude in [-180, 180].
C22_GridPointsInRange ==
    (req.json /\ InLatitudeRange(req.lat) /\ InLongitudeRange(req.lon)) =>
        \A i \in GridIndex :
            fetches[i].state # "none" =>
                /\ InLatitudeRange(fetches[i].url.latitude)
                /\ InLongitudeRange(fetches[i].url.longitude)

====
